---- MODULE Spec2Model ----
(***************************************************************************)
(* CudaKernel (onnxruntime/core/providers/cuda/cuda_kernel.h): the         *)
(* asynchronous execution protocol of the CUDA kernel base class and its   *)
(* CudaAsyncBuffer staging buffer.                                         *)
(*                                                                         *)
(* Host threads call ComputeAsync / Compute on ONE kernel instance.  The   *)
(* device is a set of streams, each a FIFO queue of kernel launches,       *)
(* host-to-device copies and host callbacks.  ComputeInternal is pure      *)
(* virtual: it is modelled as an arbitrary routine of steps, each a kernel  *)
(* launch on Stream() or an operation on one local CudaAsyncBuffer, ending *)
(* with an OK or a non-OK status; a run takes at most MaxSteps such steps. *)
(***************************************************************************)
EXTENDS Integers, Sequences, FiniteSets, TLC

\* ---- bounds of the model ----
MaxCalls == 2      \* calls made on the kernel instance
MaxSteps == 3      \* steps the ComputeInternal routines of a run take in all
MaxLen == 2        \* largest element count of a staging buffer
MaxHost == 2       \* pinned host regions the pinned allocator can supply
MaxDev == 2        \* device regions the scratch allocator can supply

Threads == {1, 2}
Streams == {1, 2}
Values == {1, 2}
\* nullptr; also "no thread" for the mutex owner and "no call" for a thread
NULL == 0
\* an indeterminate element (memory never written, or read after its release):
\* it is no staged value, so it compares equal to none
Undef == -1

HostRegions == 1..MaxHost
DevRegions == 1..MaxDev
CallIds == 1..MaxCalls

VARIABLES
  pc,            \* position of each host thread
  cur,           \* the call a thread is executing (NULL when idle)
  stream_,       \* CudaKernel::stream_
  stream_mutex_, \* CudaKernel::stream_mutex_: owning thread or NULL
  calls,         \* per call: context, locals of ComputeAsync, its done callback
  nextCall,      \* id of the next call
  buf,           \* per thread: the CudaAsyncBuffer local to its ComputeInternal
  prog,          \* per thread: the steps its ComputeInternal has executed
  steps,         \* steps taken by all ComputeInternal routines so far
  streams,       \* per device stream: the FIFO of enqueued operations
  hostMem,       \* pinned host regions: state and content
  devMem,        \* device regions: state and content
  pool,          \* provider's deferred-release pool (set of host regions)
  handed,        \* per host region: times handed to the deferred-release pool
  syncFreed      \* per host region: times freed by a staging buffer itself

vars == <<pc, cur, stream_, stream_mutex_, calls, nextCall, buf, prog, steps, streams,
          hostMem, devMem, pool, handed, syncFreed>>

\* ---- helpers ----
Min(S) == CHOOSE x \in S : \A y \in S : x <= y

Inc(n) == IF n < 2 THEN n + 1 ELSE n

\* the element sequences of length n a caller can pass
Contents(n) == [1..n -> Values]

\* a region of n elements nobody has written yet
Fresh(n) == [i \in 1..n |-> Undef]

\* seq records the order in which calls acquired stream_mutex_ (0: not yet)
NoCall == [kind |-> "none", stream |-> NULL, s |-> "none", err |-> "none",
           outcome |-> "none", done |-> 0, box |-> "none", seq |-> 0]

\* CudaAsyncBuffer(op_kernel): gpu_copy_(nullptr), count_(0); cpu_pinned_copy_ default null.
\* vec, value and asked are the arguments its constructor was called with.
EmptyBuffer == [alive |-> TRUE, cpu |-> NULL, gpu |-> NULL, count |-> 0, vec |-> <<>>,
                value |-> NULL, asked |-> 0]

NoBuffer == [alive |-> FALSE, cpu |-> NULL, gpu |-> NULL, count |-> 0, vec |-> <<>>,
             value |-> NULL, asked |-> 0]

KernelOp(c) == [kind |-> "kernel", call |-> c, src |-> NULL, dst |-> NULL, n |-> 0]

\* the copy sized one element short of count_
CopyOp_short(c, src, dst, n) ==
  [kind |-> "copy", call |-> c, src |-> src, dst |-> dst,
   n |-> IF n > 0 THEN n - 1 ELSE 0]

\* cudaMemcpyAsync(gpu_copy_.get(), cpu_pinned_copy_.get(), count_ * sizeof(T), ...)
CopyOp(c, src, dst, n) == [kind |-> "copy", call |-> c, src |-> src, dst |-> dst, n |-> n]

CallbackOp(c) == [kind |-> "callback", call |-> c, src |-> NULL, dst |-> NULL, n |-> 0]

Step(op, host) == [op |-> op, host |-> host]

\* the fixed first stream, whatever the context carries
Stream_first == CHOOSE s \in Streams : \A x \in Streams : s <= x

\* cudaStream_t Stream() const { return stream_; }
Stream == stream_

\* an operation of kind k of call c is still pending on some stream
Pending(c, k) ==
  \E s \in Streams : \E i \in 1..Len(streams[s]) :
      streams[s][i].call = c /\ streams[s][i].kind = k

\* device work (a launch or a copy) of call c is still pending
PendingWork(c) == Pending(c, "kernel") \/ Pending(c, "copy")

\* a pending host-to-device copy still reads host region r
CopyReads(r) ==
  \E s \in Streams : \E i \in 1..Len(streams[s]) :
      streams[s][i].kind = "copy" /\ streams[s][i].src = r

\* memcpy(dst, src, n elements)
Memcpy(dst, src, n) == [i \in 1..Len(dst) |-> IF i <= n THEN src[i] ELSE dst[i]]

\* the loop stopping one slot early
RECURSIVE FillLoop_short(_, _, _, _)
FillLoop_short(mem, i, value, count) ==
  IF i + 1 >= count THEN mem
  ELSE FillLoop_short([mem EXCEPT ![i + 1] = value], i + 1, value, count)

\* for (i = 0; i != count; ++i) *p++ = value;
RECURSIVE FillLoop(_, _, _, _)
FillLoop(mem, i, value, count) ==
  IF i = count THEN mem
  ELSE FillLoop([mem EXCEPT ![i + 1] = value], i + 1, value, count)

Init ==
  /\ pc = [t \in Threads |-> "idle"]
  /\ cur = [t \in Threads |-> NULL]
  /\ stream_ \in Streams \cup {NULL}     \* not initialised by the constructor
  /\ stream_mutex_ = NULL
  /\ calls = [c \in CallIds |-> NoCall]
  /\ nextCall = 1
  /\ buf = [t \in Threads |-> NoBuffer]
  /\ prog = [t \in Threads |-> <<>>]
  /\ steps = 0
  /\ streams = [s \in Streams |-> <<>>]
  /\ hostMem = [r \in HostRegions |-> [state |-> "unalloc", data |-> <<>>]]
  /\ devMem = [d \in DevRegions |-> [state |-> "unalloc", data |-> <<>>]]
  /\ pool = {}
  /\ handed = [r \in HostRegions |-> 0]
  /\ syncFreed = [r \in HostRegions |-> 0]

\* ---- allocators (provider side) ----
\* possible results of AllocateBufferOnCPUPinned: null (no allocator, or no
\* memory) or a fresh pinned region
AllocateBufferOnCPUPinned ==
  LET fresh == {r \in HostRegions : hostMem[r].state = "unalloc"}
  IN {NULL} \cup (IF fresh = {} THEN {} ELSE {Min(fresh)})

\* possible results of GetScratchBuffer: null or a fresh device region
GetScratchBuffer ==
  LET fresh == {d \in DevRegions : devMem[d].state = "unalloc"}
  IN {NULL} \cup (IF fresh = {} THEN {} ELSE {Min(fresh)})

\* unique_ptr deleter of a pinned host region (synchronous free by the buffer)
FreeHost(hm, r) ==
  [x \in HostRegions |-> IF x = r THEN [state |-> "freed", data |-> <<>>] ELSE hm[x]]

CountFree(sf, r) ==
  [x \in HostRegions |-> IF x = r THEN Inc(sf[x]) ELSE sf[x]]

\* unique_ptr deleter of a scratch device region
FreeDev(dm, d) ==
  [x \in DevRegions |-> IF x = d THEN [state |-> "freed", data |-> <<>>] ELSE dm[x]]

\* ---- leaving ComputeAsync: ~lock_guard and the result the caller sees ----
Leave(t, outcome, box) ==
  /\ calls' = [calls EXCEPT ![cur[t]].outcome = outcome, ![cur[t]].box = box]
  /\ stream_mutex_' = NULL
  /\ pc' = [pc EXCEPT ![t] = "idle"]
  /\ cur' = [cur EXCEPT ![t] = NULL]

\* ---- ComputeAsync ----
\* the dispatch engine calls ComputeAsync(context, done) on thread t
ComputeAsyncEnter(t) ==
  /\ pc[t] = "idle"
  /\ nextCall <= MaxCalls
  /\ \E st \in Streams :
       calls' = [calls EXCEPT ![nextCall].kind = "async", ![nextCall].stream = st]
  /\ cur' = [cur EXCEPT ![t] = nextCall]
  /\ nextCall' = nextCall + 1
  /\ pc' = [pc EXCEPT ![t] = "lock"]
  /\ UNCHANGED <<stream_, stream_mutex_, buf, prog, steps, streams, hostMem, devMem,
                 pool, handed, syncFreed>>

\* how many calls have acquired stream_mutex_ so far
Locked == Cardinality({c \in CallIds : calls[c].seq # 0})

\* a mutex that excludes nobody
Lock_nowait(t) ==
  /\ pc[t] = "lock"
  /\ stream_mutex_' = t
  /\ calls' = [calls EXCEPT ![cur[t]].seq = Locked + 1]
  /\ pc' = [pc EXCEPT ![t] = "setstream"]
  /\ UNCHANGED <<cur, stream_, nextCall, buf, prog, steps, streams, hostMem,
                 devMem, pool, handed, syncFreed>>

\* std::lock_guard<OrtMutex> lock(stream_mutex_);
Lock(t) ==
  /\ pc[t] = "lock"
  /\ stream_mutex_ = NULL
  /\ stream_mutex_' = t
  /\ calls' = [calls EXCEPT ![cur[t]].seq = Locked + 1]
  /\ pc' = [pc EXCEPT ![t] = "setstream"]
  /\ UNCHANGED <<cur, stream_, nextCall, buf, prog, steps, streams, hostMem,
                 devMem, pool, handed, syncFreed>>

\* the lock scoped to the assignment alone: released before ComputeInternal
SetStream_unlock(t) ==
  /\ pc[t] = "setstream"
  /\ stream_' = calls[cur[t]].stream
  /\ stream_mutex_' = NULL
  /\ pc' = [pc EXCEPT ![t] = "compute"]
  /\ prog' = [prog EXCEPT ![t] = <<>>]
  /\ UNCHANGED <<cur, calls, nextCall, buf, steps, streams, hostMem,
                 devMem, pool, handed, syncFreed>>

\* stream_ = p_op_kernel_context->GetComputeStream()->handle; the lock stays
\* held: ComputeInternal is entered next
SetStream(t) ==
  /\ pc[t] = "setstream"
  /\ stream_' = calls[cur[t]].stream
  /\ pc' = [pc EXCEPT ![t] = "compute"]
  /\ prog' = [prog EXCEPT ![t] = <<>>]
  /\ UNCHANGED <<cur, stream_mutex_, calls, nextCall, buf, steps, streams, hostMem,
                 devMem, pool, handed, syncFreed>>

\* ---- ComputeInternal: the kernel-specific routine (pure virtual) ----
InCompute(t) == pc[t] = "compute" /\ steps < MaxSteps

\* thread t has taken step st of its ComputeInternal
Took(t, st) ==
  /\ prog' = [prog EXCEPT ![t] = Append(@, st)]
  /\ steps' = steps + 1

\* a kernel launch on Stream()
LaunchKernel(t) ==
  /\ InCompute(t)
  /\ Stream \in Streams
  /\ streams' = [streams EXCEPT ![Stream] = Append(@, KernelOp(cur[t]))]
  /\ Took(t, Step("K", NULL))
  /\ UNCHANGED <<pc, cur, stream_, stream_mutex_, calls, nextCall, buf, hostMem,
                 devMem, pool, handed, syncFreed>>

\* count_ assigned ahead of the null test
FailedAlloc_counted(b, count) == [b EXCEPT !.cpu = NULL, !.count = count]

\* the buffer when AllocCpuPtr(count) throws: cpu_pinned_copy_ has been
\* assigned the null result, count_ = count has not been reached
FailedAlloc(b, count) == [b EXCEPT !.cpu = NULL]

\* void AllocCpuPtr(size_t count) on buffer b of thread t, where r is what
\* AllocateBufferOnCPUPinned returned and data the content of the new region
\* once the caller (a constructor body) has written it.
\* The assignment to cpu_pinned_copy_ comes first and frees the region held
\* before; a null result throws "alloc failed": a constructor body is then
\* skipped, and the exception unwinds ComputeInternal and ComputeAsync.
AllocCpuPtr(t, b, count, r, data, op) ==
  LET old == b.cpu
      hm1 == IF old # NULL THEN FreeHost(hostMem, old) ELSE hostMem
  IN /\ syncFreed' = IF old # NULL THEN CountFree(syncFreed, old) ELSE syncFreed
     /\ IF r = NULL
        THEN /\ hostMem' = hm1
             /\ buf' = [buf EXCEPT ![t] = FailedAlloc(b, count)]
             /\ Took(t, Step("AllocThrow", NULL))
             /\ pc' = [pc EXCEPT ![t] = "unwind"]
        ELSE /\ hostMem' = [hm1 EXCEPT ![r] = [state |-> "live", data |-> data]]
             /\ buf' = [buf EXCEPT ![t] = [b EXCEPT !.cpu = r, !.count = count]]
             /\ Took(t, Step(op, r))
             /\ UNCHANGED pc
     /\ UNCHANGED <<cur, calls, stream_mutex_, devMem, stream_, nextCall, streams,
                    pool, handed>>

\* the exception leaves ComputeInternal, destroying the buffer, and then
\* ComputeAsync, releasing the lock
Unwind(t) ==
  /\ pc[t] = "unwind"
  /\ devMem' = IF buf[t].gpu # NULL THEN FreeDev(devMem, buf[t].gpu) ELSE devMem
  /\ buf' = [buf EXCEPT ![t] = NoBuffer]
  /\ prog' = [prog EXCEPT ![t] = <<>>]
  /\ Leave(t, "THROW_ALLOC", "none")
  /\ UNCHANGED <<stream_, nextCall, steps, streams, hostMem, pool, handed, syncFreed>>

\* CudaAsyncBuffer(op_kernel)
CtorEmpty(t) ==
  /\ InCompute(t)
  /\ ~buf[t].alive
  /\ buf' = [buf EXCEPT ![t] = EmptyBuffer]
  /\ Took(t, Step("CtorEmpty", NULL))
  /\ UNCHANGED <<pc, cur, stream_, stream_mutex_, calls, nextCall, streams,
                 hostMem, devMem, pool, handed, syncFreed>>

\* CudaAsyncBuffer(op_kernel, count): the host content is not initialised
CtorCount(t) ==
  /\ InCompute(t)
  /\ ~buf[t].alive
  /\ \E count \in 0..MaxLen : \E r \in AllocateBufferOnCPUPinned :
       AllocCpuPtr(t, [EmptyBuffer EXCEPT !.asked = count], count, r,
                   Fresh(count), "CtorCount")

\* CudaAsyncBuffer(op_kernel, value, count)
CtorFill(t) ==
  /\ InCompute(t)
  /\ ~buf[t].alive
  /\ \E value \in Values : \E count \in 0..MaxLen :
       \E r \in AllocateBufferOnCPUPinned :
         AllocCpuPtr(t, [EmptyBuffer EXCEPT !.value = value, !.asked = count],
                     count, r, FillLoop(Fresh(count), 0, value, count), "CtorFill")

\* CudaAsyncBuffer(op_kernel, span vec)
CtorSpan(t) ==
  /\ InCompute(t)
  /\ ~buf[t].alive
  /\ \E n \in 0..MaxLen : \E vec \in Contents(n) :
       \E r \in AllocateBufferOnCPUPinned :
         AllocCpuPtr(t, [EmptyBuffer EXCEPT !.vec = vec, !.asked = Len(vec)], Len(vec), r,
                     Memcpy(Fresh(Len(vec)), vec, Len(vec)), "CtorSpan")

\* AllocCpuPtr(count) called on the live buffer
BufAllocCpuPtr(t) ==
  /\ InCompute(t)
  /\ buf[t].alive
  /\ \E count \in 0..MaxLen : \E r \in AllocateBufferOnCPUPinned :
       AllocCpuPtr(t, buf[t], count, r, Fresh(count), "Alloc")

\* cudaMemcpyAsync rejects a null destination for a copy of n > 0 elements
MemcpyAsyncAccepts(dst, n) == dst # NULL \/ n = 0

\* op_kernel_->AddDeferredReleaseCPUPtr(p)
AddDeferredReleaseCPUPtr(p) ==
  /\ pool' = pool \cup {p}
  /\ handed' = [handed EXCEPT ![p] = Inc(@)]

\* get() in place of release(): the buffer goes on owning the region
ReleaseCpu_get(b) == b

\* cpu_pinned_copy_.release(): the buffer gives up the region without freeing
ReleaseCpu(b) == [b EXCEPT !.cpu = NULL]

\* the hand-off left out: the buffer keeps the region and frees it itself
HandOff_keep(t, b) ==
  /\ buf' = [buf EXCEPT ![t] = b]
  /\ UNCHANGED <<pool, handed>>

\* op_kernel_->AddDeferredReleaseCPUPtr(cpu_pinned_copy_.release());
HandOff(t, b) ==
  /\ AddDeferredReleaseCPUPtr(b.cpu)
  /\ buf' = [buf EXCEPT ![t] = ReleaseCpu(b)]

\* the region handed to the pool before the result of the enqueue is tested
ReturnIfError_released(t, b) ==
  /\ AddDeferredReleaseCPUPtr(b.cpu)
  /\ buf' = [buf EXCEPT ![t] = ReleaseCpu(b)]
  /\ UNCHANGED streams

\* CUDA_RETURN_IF_ERROR(cudaMemcpyAsync(...)) failing: the error status is
\* returned at once, before line 130
ReturnIfError(t, b) ==
  /\ buf' = [buf EXCEPT ![t] = b]
  /\ UNCHANGED <<streams, pool, handed>>

\* CopyToGpu without the test of cpu_pinned_copy_
CopyToGpu_nocheck(t) ==
  /\ InCompute(t)
  /\ buf[t].alive
  /\ LET b == buf[t] IN
     \E d \in GetScratchBuffer : \E ok \in BOOLEAN :
       LET dm0 == IF b.gpu # NULL THEN FreeDev(devMem, b.gpu) ELSE devMem
           dm1 == IF d # NULL
                  THEN [dm0 EXCEPT ![d] = [state |-> "live", data |-> Fresh(b.count)]]
                  ELSE dm0
           b1 == [b EXCEPT !.gpu = d]
       IN /\ Stream \in Streams
          /\ devMem' = dm1
          /\ IF ok /\ MemcpyAsyncAccepts(d, b.count)
             THEN /\ streams' = [streams EXCEPT ![Stream] =
                                   Append(@, CopyOp(cur[t], b.cpu, d, b.count))]
                  /\ pool' = pool \cup {b.cpu}
                  /\ handed' = [r \in HostRegions |->
                                  IF r = b.cpu THEN Inc(handed[r]) ELSE handed[r]]
                  /\ buf' = [buf EXCEPT ![t] = ReleaseCpu(b1)]
                  /\ Took(t, Step("CopyOK", b.cpu))
             ELSE /\ buf' = [buf EXCEPT ![t] = b1]
                  /\ Took(t, Step("CopyErr", b.cpu))
                  /\ UNCHANGED <<streams, pool, handed>>
  /\ UNCHANGED <<pc, cur, stream_, stream_mutex_, calls, nextCall, hostMem, syncFreed>>

\* Status CopyToGpu()
CopyToGpu(t) ==
  /\ InCompute(t)
  /\ buf[t].alive
  /\ LET b == buf[t] IN
     IF b.cpu # NULL
     THEN \E d \in GetScratchBuffer : \E ok \in BOOLEAN :
            LET dm0 == IF b.gpu # NULL THEN FreeDev(devMem, b.gpu) ELSE devMem
                dm1 == IF d # NULL
                       THEN [dm0 EXCEPT ![d] = [state |-> "live", data |-> Fresh(b.count)]]
                       ELSE dm0
                b1 == [b EXCEPT !.gpu = d]
            IN /\ Stream \in Streams
               /\ devMem' = dm1
               /\ IF ok /\ MemcpyAsyncAccepts(d, b.count)
                  THEN /\ streams' = [streams EXCEPT ![Stream] =
                                        Append(@, CopyOp(cur[t], b.cpu, d, b.count))]
                       /\ HandOff(t, b1)
                       /\ Took(t, Step("CopyOK", b.cpu))
                  ELSE /\ ReturnIfError(t, b1)
                       /\ Took(t, Step("CopyErr", b.cpu))
     ELSE /\ Took(t, Step("CopyNop", NULL))
          /\ UNCHANGED <<buf, streams, devMem, pool, handed>>
  /\ UNCHANGED <<pc, cur, stream_, stream_mutex_, calls, nextCall, hostMem, syncFreed>>

\* ComputeInternal returns status s; its local CudaAsyncBuffer is destroyed:
\* a host region it still owns is freed at once, and so is its device region
ReturnInternal(t) ==
  /\ pc[t] = "compute"
  /\ \E s \in {"ok", "err"} : calls' = [calls EXCEPT ![cur[t]].s = s]
  /\ LET b == buf[t] IN
       /\ hostMem' = IF b.alive /\ b.cpu # NULL THEN FreeHost(hostMem, b.cpu) ELSE hostMem
       /\ syncFreed' = IF b.alive /\ b.cpu # NULL THEN CountFree(syncFreed, b.cpu)
                       ELSE syncFreed
       /\ devMem' = IF b.alive /\ b.gpu # NULL THEN FreeDev(devMem, b.gpu) ELSE devMem
  /\ buf' = [buf EXCEPT ![t] = NoBuffer]
  /\ prog' = [prog EXCEPT ![t] = <<>>]
  /\ pc' = [pc EXCEPT ![t] = "check"]
  /\ UNCHANGED <<cur, stream_, stream_mutex_, nextCall, steps, streams, pool, handed>>

\* the device error seen but not returned: control falls through
CheckError_ignore(t) ==
  /\ pc[t] = "check"
  /\ IF calls[cur[t]].s = "ok"
     THEN \E err \in {"ok", "err"} : calls' = [calls EXCEPT ![cur[t]].err = err]
     ELSE UNCHANGED calls
  /\ pc' = [pc EXCEPT ![t] = "addcb"]
  /\ UNCHANGED <<cur, stream_, stream_mutex_, nextCall, buf, prog, steps, streams,
                 hostMem, devMem, pool, handed, syncFreed>>

\* if (s.IsOK()) { err = cudaGetLastError(); if (err != cudaSuccess) return FAIL; }
\* a non-OK s skips the block and falls through to the callback registration
CheckError(t) ==
  /\ pc[t] = "check"
  /\ IF calls[cur[t]].s = "ok"
     THEN \E err \in {"ok", "err"} :
            IF err = "err"
            THEN /\ calls' = [calls EXCEPT ![cur[t]].err = err,
                                           ![cur[t]].outcome = "FAIL"]
                 /\ stream_mutex_' = NULL
                 /\ pc' = [pc EXCEPT ![t] = "idle"]
                 /\ cur' = [cur EXCEPT ![t] = NULL]
            ELSE /\ calls' = [calls EXCEPT ![cur[t]].err = err]
                 /\ pc' = [pc EXCEPT ![t] = "addcb"]
                 /\ UNCHANGED <<stream_mutex_, cur>>
     ELSE /\ pc' = [pc EXCEPT ![t] = "addcb"]
          /\ UNCHANGED <<calls, stream_mutex_, cur>>
  /\ UNCHANGED <<stream_, nextCall, buf, prog, steps, streams, hostMem, devMem, pool,
                 handed, syncFreed>>

\* done() called by ComputeAsync itself, on the invoking thread
AddCallback_direct(t) ==
  /\ pc[t] = "addcb"
  /\ calls' = [calls EXCEPT ![cur[t]].done = Inc(@), ![cur[t]].outcome = "OK"]
  /\ stream_mutex_' = NULL
  /\ pc' = [pc EXCEPT ![t] = "idle"]
  /\ cur' = [cur EXCEPT ![t] = NULL]
  /\ UNCHANGED <<stream_, nextCall, buf, prog, steps, streams, hostMem, devMem,
                 pool, handed, syncFreed>>

\* the box allocated and OK returned, the callback never registered
AddCallback_lost(t) ==
  /\ pc[t] = "addcb"
  /\ Leave(t, "OK", "allocated")
  /\ UNCHANGED <<stream_, nextCall, buf, prog, steps, streams, hostMem, devMem,
                 pool, handed, syncFreed>>

\* p = new DoneCallback(done);
\* CUDA_CALL_THROW(cudaStreamAddCallback(Stream(), cudaStreamCallback, p, 0));
\* return Status::OK();
AddCallback(t) ==
  /\ pc[t] = "addcb"
  /\ Stream \in Streams
  /\ \E ok \in BOOLEAN :
       IF ok
       THEN /\ streams' = [streams EXCEPT ![Stream] = Append(@, CallbackOp(cur[t]))]
            /\ Leave(t, "OK", "owned")
       ELSE /\ UNCHANGED streams
            /\ Leave(t, "THROW_CUDA", "allocated")
  /\ UNCHANGED <<stream_, nextCall, buf, prog, steps, hostMem, devMem, pool, handed, syncFreed>>

\* Compute running the kernel on the context's stream and returning OK
Compute_runs(t) ==
  /\ pc[t] = "idle"
  /\ nextCall <= MaxCalls
  /\ \E st \in Streams :
       /\ stream_' = st
       /\ streams' = [streams EXCEPT ![st] = Append(@, KernelOp(nextCall))]
  /\ calls' = [calls EXCEPT ![nextCall].kind = "sync", ![nextCall].s = "ok",
                            ![nextCall].outcome = "OK"]
  /\ nextCall' = nextCall + 1
  /\ UNCHANGED <<pc, cur, stream_mutex_, buf, prog, steps, hostMem, devMem, pool,
                 handed, syncFreed>>

\* Status Compute(ctx): ORT_NOT_IMPLEMENTED(...)
Compute(t) ==
  /\ pc[t] = "idle"
  /\ nextCall <= MaxCalls
  /\ calls' = [calls EXCEPT ![nextCall].kind = "sync",
                            ![nextCall].outcome = "NOT_IMPLEMENTED"]
  /\ nextCall' = nextCall + 1
  /\ UNCHANGED <<pc, cur, stream_, stream_mutex_, buf, prog, steps, streams, hostMem,
                 devMem, pool, handed, syncFreed>>

\* ---- the device and the provider ----
\* the trampoline registered with cudaStreamAddCallback: invokes the boxed
\* continuation and deletes the box
cudaStreamCallback(cs, c) ==
  [cs EXCEPT ![c].done = Inc(@), ![c].box = "freed"]

\* the device executes the operation at the head of stream s
StreamExec(s) ==
  /\ streams[s] # <<>>
  /\ LET op == Head(streams[s]) IN
       /\ streams' = [streams EXCEPT ![s] = Tail(@)]
       /\ calls' = IF op.kind = "callback" THEN cudaStreamCallback(calls, op.call)
                   ELSE calls
       /\ IF op.kind = "copy" /\ op.dst # NULL /\ devMem[op.dst].state = "live"
          THEN LET src == IF hostMem[op.src].state = "live"
                          THEN hostMem[op.src].data ELSE Fresh(op.n)
               IN devMem' = [devMem EXCEPT ![op.dst].data = Memcpy(@, src, op.n)]
          ELSE UNCHANGED devMem
  /\ UNCHANGED <<pc, cur, stream_, stream_mutex_, nextCall, buf, prog, steps, hostMem,
                 pool, handed, syncFreed>>

\* the provider frees a pooled host region once no enqueued copy reads it
DrainPool(r) ==
  /\ r \in pool
  /\ ~CopyReads(r)
  /\ pool' = pool \ {r}
  /\ hostMem' = FreeHost(hostMem, r)
  /\ UNCHANGED <<pc, cur, stream_, stream_mutex_, calls, nextCall, buf, prog,
                 steps, streams, devMem, handed, syncFreed>>

Next ==
  \/ \E t \in Threads : ComputeAsyncEnter(t)
  \/ \E t \in Threads : Lock(t)
  \/ \E t \in Threads : SetStream(t)
  \/ \E t \in Threads : LaunchKernel(t)
  \/ \E t \in Threads : CtorEmpty(t)
  \/ \E t \in Threads : CtorCount(t)
  \/ \E t \in Threads : CtorFill(t)
  \/ \E t \in Threads : CtorSpan(t)
  \/ \E t \in Threads : BufAllocCpuPtr(t)
  \/ \E t \in Threads : Unwind(t)
  \/ \E t \in Threads : CopyToGpu(t)
  \/ \E t \in Threads : ReturnInternal(t)
  \/ \E t \in Threads : CheckError(t)
  \/ \E t \in Threads : AddCallback(t)
  \/ \E t \in Threads : Compute(t)
  \/ \E s \in Streams : StreamExec(s)
  \/ \E r \in HostRegions : DrainPool(r)

Spec == Init /\ [][Next]_vars

\* the device keeps executing the operations enqueued on each stream
FairSpec == Spec /\ \A s \in Streams : WF_vars(StreamExec(s))

\* ---- properties ----
Last(q) == q[Len(q)]

\* the copy operations pending on the streams
PendingCopies ==
  {op \in UNION {{streams[s][i] : i \in 1..Len(streams[s])} : s \in Streams} :
     op.kind = "copy"}

\* C1: the completion continuation of a call is invoked at most once, only by
\* the device executing the call's stream callback at the head of a stream
\* (never by a step of a host thread), and only when no launch or copy that
\* the call enqueued is still pending.
C1_DoneOnceAfterWork ==
  [][\A c \in CallIds :
       calls'[c].done # calls[c].done =>
         /\ calls[c].done = 0
         /\ calls'[c].done = 1
         /\ \E s \in Streams :
              /\ streams[s] # <<>>
              /\ Head(streams[s]) = CallbackOp(c)
              /\ streams'[s] = Tail(streams[s])
         /\ UNCHANGED <<pc, cur, stream_mutex_>>
         /\ ~PendingWork(c)']_vars

C1_Witness ==
  /\ nextCall = 2
  /\ calls[1].outcome = "OK"
  /\ calls[1].done = 1
  /\ \E r \in HostRegions : handed[r] = 1

\* C2: a call whose ComputeInternal reported a non-success status never has
\* its continuation boxed, registered as a stream callback or invoked.
C2_NoCallbackAfterFailure ==
  \A c \in CallIds :
    calls[c].s = "err" =>
      /\ calls[c].box = "none"
      /\ ~Pending(c, "callback")
      /\ calls[c].done = 0

\* C3: a call whose ComputeInternal reported a non-success status never
\* returns OK to its caller.
C3_ErrorPropagates ==
  \A c \in CallIds :
    (calls[c].s = "err" /\ calls[c].outcome # "none") => calls[c].outcome # "OK"

\* C4: a call whose post-compute cudaGetLastError reported an error returns
\* FAIL, has no callback boxed or registered, and its continuation is never
\* invoked, whatever callbacks of other calls are pending.
C4_PostCheckFailure ==
  \A c \in CallIds :
    calls[c].err = "err" =>
      /\ calls[c].outcome = "FAIL"
      /\ calls[c].box = "none"
      /\ ~Pending(c, "callback")
      /\ calls[c].done = 0

C4_Witness ==
  \E c, e \in CallIds :
    /\ c # e
    /\ calls[c].err = "err"
    /\ calls[c].outcome = "FAIL"
    /\ calls[e].stream = calls[c].stream
    /\ Pending(e, "callback")

\* C5: Compute always ends with the not-implemented failure; the step that
\* makes the call leaves the cached stream, the lock, the streams and all
\* memory untouched, and no ComputeInternal status or device operation ever
\* belongs to such a call.
C5_ComputeNotImplemented ==
  /\ [](\A c \in CallIds :
          calls[c].kind = "sync" =>
            /\ calls[c].outcome = "NOT_IMPLEMENTED"
            /\ calls[c].s = "none"
            /\ ~PendingWork(c)
            /\ ~Pending(c, "callback"))
  /\ [][\A c \in CallIds :
          (calls[c].kind = "none" /\ calls'[c].kind = "sync") =>
            UNCHANGED <<stream_, stream_mutex_, streams, steps, buf, hostMem,
                        devMem, pool>>]_vars

C5_Witness ==
  \E c \in CallIds : \E t \in Threads :
    /\ calls[c].kind = "sync"
    /\ calls[c].outcome = "NOT_IMPLEMENTED"
    /\ pc[t] = "compute"
    /\ cur[t] < c

\* the last step of thread t's ComputeInternal was a CopyToGpu, with one of
\* the results in ops, on a buffer that held a host copy
CopiedWith(t, ops) ==
  /\ buf[t].alive
  /\ prog[t] # <<>>
  /\ Last(prog[t]).op \in ops

\* no region is handed off twice, none is both handed off and freed by a buffer
SingleRelease ==
  \A r \in HostRegions :
    /\ handed[r] <= 1
    /\ ~(handed[r] >= 1 /\ syncFreed[r] >= 1)

\* C6 (as stated): after any CopyToGpu on a buffer holding a host copy,
\* whether it succeeded or not, CpuPtr() is null and the region was handed
\* to the deferred-release pool exactly once; and SingleRelease.
C6_HandedOffAfterAnyCopy ==
  /\ \A t \in Threads :
       CopiedWith(t, {"CopyOK", "CopyErr"}) =>
         /\ buf[t].cpu = NULL
         /\ handed[Last(prog[t]).host] = 1
  /\ SingleRelease

\* C6 (amended): after a CopyToGpu that returned success on a buffer holding
\* a host copy, CpuPtr() is null and the region was handed to the
\* deferred-release pool exactly once; and SingleRelease.
C6_HandedOffAfterCopy ==
  /\ \A t \in Threads :
       CopiedWith(t, {"CopyOK"}) =>
         /\ buf[t].cpu = NULL
         /\ handed[Last(prog[t]).host] = 1
         /\ syncFreed[Last(prog[t]).host] = 0
  /\ SingleRelease

C6_Witness ==
  \E t \in Threads :
    /\ CopiedWith(t, {"CopyOK"})
    /\ buf[t].cpu = NULL
    /\ handed[Last(prog[t]).host] = 1

\* C7: the source region of a pending host-to-device copy has never been
\* freed by a staging buffer: it is live and sits in the deferred-release pool.
C7_NoSyncFreeInFlight ==
  \A op \in PendingCopies :
    /\ syncFreed[op.src] = 0
    /\ hostMem[op.src].state = "live"
    /\ op.src \in pool

\* a copy is pending and the buffer that issued it is gone, or has been
\* given a new host region since
C7_Witness ==
  \E op \in PendingCopies :
    \/ \A t \in Threads : ~buf[t].alive
    \/ \E t \in Threads : buf[t].alive /\ buf[t].cpu # NULL /\ buf[t].cpu # op.src

\* C8: while a call's ComputeInternal runs, Stream() is the stream of that
\* call's own context, and every launch and copy sits on the stream of the
\* context of the call that enqueued it.
C8_OwnStream ==
  /\ \A t \in Threads : pc[t] = "compute" => Stream = calls[cur[t]].stream
  /\ \A s \in Streams : \A i \in 1..Len(streams[s]) :
       streams[s][i].kind \in {"kernel", "copy"} =>
         calls[streams[s][i].call].stream = s

\* one call is in its ComputeInternal and has enqueued work while another
\* call, with a different stream, waits for the lock
C8_Witness ==
  \E t, u \in Threads :
    /\ pc[t] = "compute"
    /\ PendingWork(cur[t])
    /\ pc[u] = "lock"
    /\ calls[cur[u]].stream # calls[cur[t]].stream

\* C9: under FairSpec, the continuation of every call that returned OK is
\* eventually invoked.
C9_DoneEventually ==
  \A c \in CallIds : (calls[c].outcome = "OK") ~> (calls[c].done >= 1)

C9_Witness ==
  \E c \in CallIds :
    /\ calls[c].outcome = "OK"
    /\ calls[c].box = "freed"
    /\ calls[c].done = 1

\* thread t built its buffer from a sequence, has not called AllocCpuPtr
\* since, a CopyToGpu succeeded, and the copy is no longer pending
StagedAndCopied(t) ==
  /\ buf[t].alive
  /\ \E i \in 1..Len(prog[t]) : prog[t][i].op = "CtorSpan"
  /\ \E i \in 1..Len(prog[t]) : prog[t][i].op = "CopyOK"
  /\ \A i \in 1..Len(prog[t]) : prog[t][i].op # "Alloc"
  /\ ~Pending(cur[t], "copy")

\* C10: once the copy of a buffer built from a sequence of N elements has
\* executed, count() is N and the device buffer holds the N elements.
C10_RoundTrip ==
  \A t \in Threads :
    StagedAndCopied(t) =>
      /\ buf[t].count = Len(buf[t].vec)
      /\ Len(buf[t].vec) > 0 =>
           /\ buf[t].gpu # NULL
           /\ devMem[buf[t].gpu].state = "live"
           /\ devMem[buf[t].gpu].data = buf[t].vec

C10_Witness ==
  \E t \in Threads :
    /\ StagedAndCopied(t)
    /\ Len(buf[t].vec) = MaxLen
    /\ devMem[buf[t].gpu].data = buf[t].vec
    /\ buf[t].vec[1] # buf[t].vec[MaxLen]

\* C11: right after the fill constructor (value, count) succeeded, count()
\* is the count asked for, the host buffer has that many slots, every slot
\* holds the value, and nothing has been transferred or handed off.
C11_FillConstructor ==
  \A t \in Threads :
    (buf[t].alive /\ prog[t] # <<>> /\ Last(prog[t]).op = "CtorFill") =>
      /\ buf[t].cpu # NULL
      /\ buf[t].count = buf[t].asked
      /\ hostMem[buf[t].cpu].state = "live"
      /\ Len(hostMem[buf[t].cpu].data) = buf[t].asked
      /\ \A i \in 1..buf[t].asked : hostMem[buf[t].cpu].data[i] = buf[t].value
      /\ handed[buf[t].cpu] = 0
      /\ ~CopyReads(buf[t].cpu)

C11_Witness ==
  \E t \in Threads :
    /\ buf[t].alive /\ prog[t] # <<>> /\ Last(prog[t]).op = "CtorFill"
    /\ buf[t].asked = MaxLen
    /\ \A i \in 1..MaxLen : hostMem[buf[t].cpu].data[i] = buf[t].value

\* the results a CopyToGpu step can have
CopySteps == {"CopyOK", "CopyErr", "CopyNop"}

\* thread t takes a CopyToGpu step
CopyStep(t) ==
  /\ Len(prog'[t]) = Len(prog[t]) + 1
  /\ Last(prog'[t]).op \in CopySteps

\* C12: a CopyToGpu on a buffer holding no host copy returns success and
\* changes nothing: no device buffer is allocated, no copy enqueued, nothing
\* handed to the pool, GpuPtr() and count() stay as they were.
C12_CopyNoOp ==
  [][\A t \in Threads :
       (buf[t].alive /\ buf[t].cpu = NULL /\ CopyStep(t)) =>
         /\ Last(prog'[t]).op = "CopyNop"
         /\ UNCHANGED <<buf, streams, devMem, hostMem, pool, handed, syncFreed,
                        pc, calls>>]_vars

\* a second CopyToGpu after a successful first one has returned
C12_Witness ==
  \E t \in Threads :
    /\ buf[t].alive
    /\ Len(prog[t]) >= 2
    /\ prog[t][Len(prog[t]) - 1].op = "CopyOK"
    /\ Last(prog[t]).op = "CopyNop"
    /\ buf[t].gpu # NULL

\* C13: a CopyToGpu whose enqueue of the copy fails returns the error,
\* enqueues nothing, hands nothing to the pool and leaves the host region,
\* its content, CpuPtr() and count() as they were, so the buffer still owns
\* a live host copy that a later CopyToGpu transfers.
C13_CopyFailureKeepsHost ==
  /\ [](\A t \in Threads :
          CopiedWith(t, {"CopyErr"}) =>
            /\ buf[t].cpu # NULL
            /\ buf[t].cpu = Last(prog[t]).host
            /\ hostMem[buf[t].cpu].state = "live"
            /\ handed[buf[t].cpu] = 0
            /\ buf[t].cpu \notin pool)
  /\ [][\A t \in Threads :
          (buf[t].alive /\ CopyStep(t) /\ Last(prog'[t]).op = "CopyErr") =>
            /\ buf'[t].cpu = buf[t].cpu
            /\ buf'[t].count = buf[t].count
            /\ UNCHANGED <<hostMem, streams, pool, handed, syncFreed>>]_vars

\* a CopyToGpu failed and the next one transferred the same host region
C13_Witness ==
  \E t \in Threads :
    /\ buf[t].alive
    /\ Len(prog[t]) >= 2
    /\ prog[t][Len(prog[t]) - 1].op = "CopyErr"
    /\ Last(prog[t]).op = "CopyOK"
    /\ Last(prog[t]).host = prog[t][Len(prog[t]) - 1].host
    /\ CopyReads(Last(prog[t]).host)

\* C14: a null result of GetScratchBuffer inside CopyToGpu is signalled as
\* an allocation failure: CopyToGpu never returns a status, success or
\* error, with a null device buffer, and no copy with a null destination
\* is ever enqueued (so no host region is handed off for one).
C14_ScratchFailureSignalled ==
  /\ \A t \in Threads :
       CopiedWith(t, {"CopyOK", "CopyErr"}) => buf[t].gpu # NULL
  /\ \A op \in PendingCopies : op.dst # NULL

\* C15: when AllocateBufferOnCPUPinned returns null, AllocCpuPtr (called
\* directly or by a constructor taking a count) throws: CpuPtr() is null,
\* count() is what it was before the call (0 for a constructor), no host
\* region has been written, and the call ends with the allocation failure.
C15_AllocFailure ==
  /\ [](\A t \in Threads :
          pc[t] = "unwind" =>
            /\ buf[t].cpu = NULL
            /\ Last(prog[t]).op = "AllocThrow")
  /\ [][\A t \in Threads :
          /\ (pc[t] = "compute" /\ pc'[t] = "unwind") =>
               /\ buf'[t].count = (IF buf[t].alive THEN buf[t].count ELSE 0)
               /\ \A r \in HostRegions :
                    \/ hostMem'[r] = hostMem[r]
                    \/ (r = buf[t].cpu /\ buf[t].alive /\ hostMem'[r].state = "freed")
               /\ UNCHANGED <<streams, pool, handed>>
          /\ (pc[t] = "unwind" /\ pc'[t] # "unwind") =>
               calls'[cur[t]].outcome = "THROW_ALLOC"]_vars

\* the fill constructor was asked for MaxLen slots and the allocation failed
C15_Witness ==
  \E t \in Threads :
    /\ pc[t] = "unwind"
    /\ buf[t].value # NULL
    /\ buf[t].asked = MaxLen
    /\ buf[t].count = 0

\* the part of ComputeAsync that follows the acquisition of the lock
InLockScope(t) == pc[t] \in {"setstream", "compute", "unwind", "check", "addcb"}

\* C16 as stated: the lock is released before ComputeInternal is invoked, so
\* a thread inside its compute routine does not hold stream_mutex_.
C16_LockReleasedBeforeCompute ==
  \A t \in Threads : pc[t] = "compute" => stream_mutex_ # t

\* C16: the lock is held from its acquisition until ComputeAsync returns or
\* throws, ComputeInternal included, so the compute routines of two calls on
\* the same kernel instance are never in progress at the same time.
C16_LockHeldThroughCompute ==
  /\ \A t \in Threads : InLockScope(t) <=> stream_mutex_ = t
  /\ \A t, u \in Threads : (InLockScope(t) /\ InLockScope(u)) => t = u

\* one call is inside its ComputeInternal, some steps taken, holding the
\* lock, while the other thread's call waits to acquire it
C16_Witness ==
  \E t, u \in Threads :
    /\ pc[t] = "compute"
    /\ Len(prog[t]) >= 1
    /\ stream_mutex_ = t
    /\ pc[u] = "lock"

\* C17: every pending completion callback sits on the stream of its own
\* call's context, and nothing that call enqueued sits on another stream.
C17_CallbackOnOwnStream ==
  \A s \in Streams : \A i \in 1..Len(streams[s]) :
    streams[s][i].kind = "callback" =>
      /\ calls[streams[s][i].call].stream = s
      /\ \A s2 \in Streams \ {s} : \A j \in 1..Len(streams[s2]) :
           streams[s2][j].call # streams[s][i].call

\* two calls carrying different streams, one of which waited for the lock
\* while the other computed, each with device work and its callback pending
C17_Witness ==
  \E c, d \in CallIds :
    /\ calls[c].stream # calls[d].stream
    /\ calls[c].seq = 1 /\ calls[d].seq = 2
    /\ PendingWork(c) /\ Pending(c, "callback")
    /\ PendingWork(d) /\ Pending(d, "callback")

\* C18: no box allocated by ComputeAsync is left without an owner: each
\* is owned by a registered stream callback or has been freed.
C18_NoBoxLeak ==
  \A c \in CallIds : calls[c].box \in {"none", "owned", "freed"}

\* the operations of async calls at positions i < j of one stream
Before(s, i, j) ==
  /\ i < j
  /\ streams[s][i].call # streams[s][j].call

\* the device is about to execute, or has just executed in the step taken,
\* the head of stream s
Executes(s) == streams[s] # <<>> /\ streams'[s] = Tail(streams[s])

\* ComputeAsync call c has returned Status::OK()
Successful(c) == calls[c].kind = "async" /\ calls[c].outcome = "OK"

\* C19 as stated: on a shared stream everything a successful call enqueued
\* sits ahead of everything enqueued by a successful call that entered
\* ComputeAsync after it, and no operation of the later call executes
\* before the continuation of the earlier one has fired.
C19_EntryOrder ==
  /\ [](\A s \in Streams : \A i, j \in 1..Len(streams[s]) :
          ( /\ Before(s, i, j)
            /\ Successful(streams[s][i].call)
            /\ Successful(streams[s][j].call) ) =>
              streams[s][i].call < streams[s][j].call)
  /\ [][\A s \in Streams : Executes(s) =>
          \A c \in CallIds :
            ( /\ c < Head(streams[s]).call
              /\ calls[c].stream = s
              /\ Successful(c)
              /\ Successful(Head(streams[s]).call) ) => calls[c].done >= 1]_vars

\* C19: on a shared stream everything a call enqueues sits contiguously ahead
\* of everything enqueued by a call that acquired the lock after it, and no
\* operation of a call executes before the continuation of a successful call
\* that acquired the lock earlier on the same stream has fired. (Stated for
\* all calls, successful or not, which covers two successful ones.)
C19_LockOrder ==
  /\ [](\A s \in Streams : \A i, j \in 1..Len(streams[s]) :
          Before(s, i, j) =>
            calls[streams[s][i].call].seq < calls[streams[s][j].call].seq)
  /\ [][\A s \in Streams : Executes(s) =>
          \A c \in CallIds :
            ( /\ calls[c].seq # 0
              /\ calls[c].seq < calls[Head(streams[s]).call].seq
              /\ calls[c].stream = s
              /\ Successful(c) ) => calls[c].done >= 1]_vars

\* two successful calls on one stream, the one that entered second having
\* acquired the lock first: its continuation has fired while the callback of
\* the call that entered first is still pending behind it
C19_Witness ==
  \E c, d \in CallIds :
    /\ c < d
    /\ calls[c].stream = calls[d].stream
    /\ calls[d].seq = 1 /\ calls[c].seq = 2
    /\ Successful(c) /\ Successful(d)
    /\ calls[d].done = 1
    /\ Pending(c, "callback")

====
